---- MODULE Spec2Model ----
(***************************************************************************)
(* Model of exaspim_control/exa_spim_acquisition.py: ExASPIMAcquisition.   *)
(* The tile orchestrator run(), the per-camera capture thread engine(),    *)
(* the cooperative stop stop_acquisition(), the chunk-size validation      *)
(* _verify_acquisition(), and the external consumers the engine signals    *)
(* (writer "done reading", process "new image").                           *)
(***************************************************************************)
EXTENDS Integers, Sequences, FiniteSets, TLC

\* ------------------------------------------------------------------ bounds
MaxChunk == 2        \* writer.chunk_count_px ranges over 1..MaxChunk
MaxSteps == 5        \* the longest tile['steps'] (one camera)
MaxStepsTwoCam == 2  \* tile['steps'] ranges over 1..MaxStepsTwoCam (two cameras)
NumTiles == 2        \* tiles in the scan plan of the one-camera sessions
PollBound == 2       \* polls counted after a stop request, per thread

CameraIds == {"cam0", "cam1"}
WriterIds == {"w0", "w1"}
ProcessIds == {"p0"}
DaqIds == {"d0", "d1"}
TransferIds == {"t0", "t1"}
ChunkSizes == 1..MaxChunk
\* tile['steps'] of the one-camera sessions: a tile of one frame (too short
\* for a chunk of two), and the two longest
TileSteps == {1, MaxSteps - 1, MaxSteps}

\* ------------------------------------------------------------------ state
VARIABLES
  config,               \* the loaded configuration (instrument + acquisition yaml)
  rpc,                  \* position of __init__/run()
  tile_index,           \* index into config.tiles of the tile run() is at
  cam_index,            \* position of run()'s thread-start loop
  chunk_count_px,       \* self.chunk_count_px (0: None)
  acquisition_threads,  \* self.acquisition_threads: camera -> thread state
  stop_engine,          \* self.stop_engine (Event)
  spc,                  \* position of stop_acquisition()
  pc,                   \* position of engine() per camera
  stack_index,          \* engine(): stack_index per camera
  loop_o, loop_i,       \* engine(): outer/inner daq loop positions (lines 263, 269)
  widx,                 \* engine(): position of the toggle loop over writers
  pidx,                 \* engine(): position of the loop over processes
  buf,                  \* img_buffers: writer -> SharedDoubleBuffer state
  done_reading,         \* writer.done_reading (Event) per writer
  shm_name,             \* writer.shm_name per writer (the half named, -1: unset)
  chunk_lock,           \* chunk_locks: per writer "free", or how far its holder got
  handed,               \* halves handed to the writer consumer and not yet drained
  new_image,            \* process.new_image (Event) per process
  daq,                  \* trigger devices: tasks started, pulse count, written
  trig_stopped,         \* per camera thread: daqs it stopped since its last start
  cycle_cfg,            \* per camera thread: daqs it configured for the chunk at hand
  hw,                   \* session history: stage motion, trigger programming, threads
  stuck_polls,          \* per camera: polls of a wait loop made with the stop flag set
  camera_on,            \* per camera: started (camera.start()) and not stopped
  finished,             \* writers and processes whose wait_to_finish() has returned
  released,             \* per writer/process: releases of the region its thread allocated
  offered,              \* per process: frames written into its slot this tile, in order
  transfer,             \* transfer handles: alive, filename (tile number, 0: unset)
  transfer_threads,     \* self.transfer_threads: the transfers run() has registered
  post_stop,            \* per thread in the loop: iterations that armed / grabbed with the flag set
  late                  \* cameras whose thread was started with the stop flag set

runvars == <<rpc, tile_index, cam_index, chunk_count_px>>
stopvars == <<stop_engine, spc>>
engvars == <<pc, stack_index, loop_o, loop_i, widx, pidx, trig_stopped, cycle_cfg,
            stuck_polls>>
bufvars == <<buf, done_reading, shm_name, handed, chunk_lock>>
xfervars == <<transfer, transfer_threads>>
drainvars == <<camera_on, finished, released>>
stopobs == <<post_stop, late>>
vars == <<config, rpc, tile_index, cam_index, chunk_count_px, acquisition_threads,
          stop_engine, spc, pc, stack_index, loop_o, loop_i, widx, pidx, buf,
          done_reading, shm_name, handed, chunk_lock, new_image, daq, trig_stopped,
          cycle_cfg, hw, stuck_polls, camera_on, finished, released, offered,
          transfer, transfer_threads, post_stop, late>>

\* ---------------------------------------------------------- configuration
SeqToSet(s) == {s[i] : i \in 1..Len(s)}

\* One camera with two writers and one analysis process, two trigger devices.
OneCameraConfig(ch, tl) ==
  [cameras   |-> <<"cam0">>,
   daqs      |-> <<"d0", "d1">>,
   writers   |-> [c \in CameraIds |-> IF c = "cam0" THEN <<"w0", "w1">> ELSE <<>>],
   processes |-> [c \in CameraIds |-> IF c = "cam0" THEN <<"p0">> ELSE <<>>],
   tasks     |-> [d \in DaqIds |-> {"ao", "do", "co"}],
   path      |-> [w \in WriterIds |-> TRUE],
   transfers |-> <<"t0", "t1">>,
   chunk     |-> ch,
   tiles     |-> tl]

\* Two cameras with one writer each, one trigger device without a do task.
TwoCameraConfig(ch, tl) ==
  [cameras   |-> <<"cam0", "cam1">>,
   daqs      |-> <<"d0">>,
   writers   |-> [c \in CameraIds |-> IF c = "cam0" THEN <<"w0">> ELSE <<"w1">>],
   processes |-> [c \in CameraIds |-> IF c = "cam0" THEN <<"p0">> ELSE <<>>],
   tasks     |-> [d \in DaqIds |-> {"ao", "co"}],
   path      |-> [w \in WriterIds |-> w = "w0"],
   transfers |-> <<"t0">>,
   chunk     |-> ch,
   tiles     |-> tl]

\* Scan plans of the one-camera sessions: NumTiles tiles of the same length,
\* the last of them possibly of a single frame.
TilePlans ==
  {[i \in 1..NumTiles |-> IF i = NumTiles /\ short THEN 1 ELSE n] :
     n \in TileSteps, short \in BOOLEAN}

Configs ==
  {OneCameraConfig(ch, tl) : ch \in [WriterIds -> ChunkSizes],
                             tl \in TilePlans}
  \cup
  {TwoCameraConfig(ch, tl) : ch \in [WriterIds -> ChunkSizes],
                             tl \in [1..1 -> 1..MaxStepsTwoCam]}

Cams == config.cameras
Daqs == config.daqs
DaqSet == SeqToSet(config.daqs)
WritersOf(c) == config.writers[c]
ProcsOf(c) == config.processes[c]
\* the shared-memory regions engine() allocates for camera c: one double
\* buffer per writer, one image buffer per process
RegionsOf(c) == SeqToSet(WritersOf(c)) \cup SeqToSet(ProcsOf(c))
\* self.writers flattened in iteration order: devices, then each device's writers
AllWriters ==
  LET RECURSIVE Flat(_)
      Flat(i) == IF i > Len(Cams) THEN <<>> ELSE WritersOf(Cams[i]) \o Flat(i + 1)
  IN Flat(1)
CameraOf(w) == CHOOSE c \in SeqToSet(Cams) : w \in SeqToSet(WritersOf(c))
Steps == config.tiles[tile_index]

\* ------------------------------------------------------------------- init
NewBuffer == [write |-> 0, fill |-> 0, toggles |-> 0, chunks |-> <<>>]
NoneSinceStop == [arm |-> {}, grab |-> {}]
TransferIdle == [alive |-> FALSE, filename |-> 0]
DaqIdle == [ao |-> FALSE, do |-> FALSE, co |-> FALSE, pulses |-> 0,
            written |-> {}]

Init ==
  /\ config \in Configs
  /\ rpc = "init"
  /\ tile_index = 1
  /\ cam_index = 1
  /\ chunk_count_px = 0
  /\ acquisition_threads = [c \in CameraIds |-> "none"]
  /\ stop_engine = FALSE
  /\ spc = "idle"
  /\ pc = [c \in CameraIds |-> "idle"]
  /\ stack_index = [c \in CameraIds |-> 0]
  /\ loop_o = [c \in CameraIds |-> 1]
  /\ loop_i = [c \in CameraIds |-> 1]
  /\ widx = [c \in CameraIds |-> 1]
  /\ pidx = [c \in CameraIds |-> 1]
  /\ buf = [w \in WriterIds |-> NewBuffer]
  /\ done_reading = [w \in WriterIds |-> TRUE]
  /\ shm_name = [w \in WriterIds |-> -1]
  /\ handed = [w \in WriterIds |-> {}]
  /\ chunk_lock = [w \in WriterIds |-> "free"]
  /\ new_image = [p \in ProcessIds |-> FALSE]
  /\ daq = [d \in DaqIds |-> DaqIdle]
  /\ trig_stopped = [c \in CameraIds |-> {}]
  /\ cycle_cfg = [c \in CameraIds |-> {}]
  /\ hw = [stage |-> FALSE, trigger |-> FALSE, thread |-> FALSE]
  /\ stuck_polls = [c \in CameraIds |-> 0]
  /\ camera_on = [c \in CameraIds |-> FALSE]
  /\ finished = {}
  /\ released = [x \in WriterIds \cup ProcessIds |-> 0]
  /\ offered = [p \in ProcessIds |-> <<>>]
  /\ transfer = [t \in TransferIds |-> TransferIdle]
  /\ transfer_threads = {}
  /\ post_stop = [c \in CameraIds |-> NoneSinceStop]
  /\ late = {}

\* ------------------------------------------------- _verify_acquisition()
\* The chunk size every writer shares, or -1 when two writers differ
\* (ValueError).  chunk_size starts as the first writer's value and every later
\* writer is compared with it.  (VerifyChunkSizePerDevice: the variant that
\* compares only the writers of the first device.)
VerifyChunkSizePerDevice(ws, ch) ==
  IF \E i \in 1..Len(ws) :
       CameraOf(ws[i]) = CameraOf(ws[1]) /\ ch[ws[i]] # ch[ws[1]]
    THEN -1 ELSE ch[ws[1]]
VerifyChunkSize(ws, ch) ==
  IF \E i \in 1..Len(ws) : ch[ws[i]] # ch[ws[1]] THEN -1 ELSE ch[ws[1]]

\* __init__: the configuration is loaded and validated.
Construct ==
  /\ rpc = "init"
  /\ LET size == VerifyChunkSize(AllWriters, config.chunk)
     IN IF size = -1
          THEN /\ rpc' = "config_error"
               /\ UNCHANGED chunk_count_px
          ELSE /\ rpc' = "ready"
               /\ chunk_count_px' = size
  /\ UNCHANGED <<config, tile_index, cam_index, acquisition_threads, stop_engine,
                 spc, new_image, daq, hw>>
  /\ UNCHANGED engvars
  /\ UNCHANGED bufvars
  /\ UNCHANGED xfervars
  /\ UNCHANGED offered
  /\ UNCHANGED drainvars
  /\ UNCHANGED stopobs

\* ------------------------------------------------------------------ run()
\* Lines 67-73: the tile's frame count against every writer's chunk size.
TileTooShort(steps, ws, ch) == \E i \in 1..Len(ws) : steps < ch[ws[i]]

\* daq.stop(): every task of the device is stopped.
StopDaq(r) == [r EXCEPT !.ao = FALSE, !.do = FALSE, !.co = FALSE]

\* Lines 113-124: add_task/write for the ao and do tasks, add_task('co',
\* pulse_count) with pulse_count = self.chunk_count_px.
SetupDaq(r, tasks, count) ==
  [r EXCEPT !.ao = FALSE, !.do = FALSE, !.co = FALSE,
            !.written = tasks \ {"co"},
            !.pulses = count]

\* run() is entered: the first tile is taken from the scan plan.
RunBegin ==
  /\ rpc = "ready"
  /\ rpc' = "tile_check"
  /\ tile_index' = 1
  /\ UNCHANGED <<config, cam_index, chunk_count_px, acquisition_threads,
                 new_image, daq, hw>>
  /\ UNCHANGED <<stopvars, engvars, bufvars>>
  /\ UNCHANGED xfervars
  /\ UNCHANGED offered
  /\ UNCHANGED drainvars
  /\ UNCHANGED stopobs

\* Lines 55-73: filenames, then the sanity check of the scan length.
RunCheckTile ==
  /\ rpc = "tile_check"
  /\ rpc' = IF TileTooShort(Steps, AllWriters, config.chunk)
              THEN "tile_error" ELSE "position"
  /\ UNCHANGED <<config, tile_index, cam_index, chunk_count_px,
                 acquisition_threads, new_image, daq, hw>>
  /\ UNCHANGED <<stopvars, engvars, bufvars>>
  /\ UNCHANGED xfervars
  /\ UNCHANGED offered
  /\ UNCHANGED drainvars
  /\ UNCHANGED stopobs

\* Lines 75-111: tiling stages moved and settled, scanning stage commanded,
\* channel devices enabled and set.
RunPosition ==
  /\ rpc = "position"
  /\ rpc' = "daq_setup"
  /\ hw' = [hw EXCEPT !.stage = TRUE]
  /\ UNCHANGED <<config, tile_index, cam_index, chunk_count_px,
                 acquisition_threads, new_image, daq>>
  /\ UNCHANGED <<stopvars, engvars, bufvars>>
  /\ UNCHANGED xfervars
  /\ UNCHANGED offered
  /\ UNCHANGED drainvars
  /\ UNCHANGED stopobs

\* Lines 113-124: waveforms written, counter task added with chunk_count_px.
RunDaqSetup ==
  /\ rpc = "daq_setup"
  /\ rpc' = "create_threads"
  /\ daq' = [d \in DaqIds |->
               IF d \in DaqSet
                 THEN SetupDaq(daq[d], config.tasks[d], chunk_count_px)
                 ELSE daq[d]]
  /\ hw' = [hw EXCEPT !.trigger = TRUE]
  /\ UNCHANGED <<config, tile_index, cam_index, chunk_count_px,
                 acquisition_threads, new_image>>
  /\ UNCHANGED <<stopvars, engvars, bufvars>>
  /\ UNCHANGED xfervars
  /\ UNCHANGED offered
  /\ UNCHANGED drainvars
  /\ UNCHANGED stopobs

\* Lines 139-155: one Thread(target=self.engine) per camera, not yet started.
RunCreateThreads ==
  /\ rpc = "create_threads"
  /\ rpc' = "start_threads"
  /\ cam_index' = 1
  /\ acquisition_threads' =
       [c \in CameraIds |-> IF c \in SeqToSet(Cams) THEN "created"
                                                     ELSE acquisition_threads[c]]
  /\ pc' = [c \in CameraIds |-> IF c \in SeqToSet(Cams) THEN "idle" ELSE pc[c]]
  /\ hw' = [hw EXCEPT !.thread = TRUE]
  /\ UNCHANGED <<config, tile_index, chunk_count_px, new_image, daq,
                 stack_index, loop_o, loop_i, widx, pidx, trig_stopped,
                 cycle_cfg, stuck_polls>>
  /\ UNCHANGED <<stopvars, bufvars>>
  /\ UNCHANGED xfervars
  /\ UNCHANGED offered
  /\ UNCHANGED drainvars
  /\ UNCHANGED stopobs

\* Lines 158-160: the threads are started one camera after the other.
RunStartThread ==
  /\ rpc = "start_threads"
  /\ LET c == Cams[cam_index]
     IN /\ acquisition_threads' = [acquisition_threads EXCEPT ![c] = "alive"]
        /\ pc' = [pc EXCEPT ![c] = "setup"]
        /\ post_stop' = [post_stop EXCEPT ![c] = NoneSinceStop]
        /\ late' = IF stop_engine THEN late \cup {c} ELSE late \ {c}
  /\ IF cam_index < Len(Cams)
       THEN /\ cam_index' = cam_index + 1
            /\ UNCHANGED rpc
       ELSE /\ cam_index' = 1
            /\ rpc' = "join"
  /\ UNCHANGED <<config, tile_index, chunk_count_px, new_image, daq, hw,
                 stack_index, loop_o, loop_i, widx, pidx, trig_stopped,
                 cycle_cfg, stuck_polls>>
  /\ UNCHANGED <<stopvars, bufvars>>
  /\ UNCHANGED xfervars
  /\ UNCHANGED offered
  /\ UNCHANGED drainvars

\* Line 163: the cameras whose threads are joined, those of
\* self.acquisition_threads.  (JoinedFirstOnly: the variant that joins the
\* first thread only.)
JoinedFirstOnly == {Cams[1]}
JoinedCameras == SeqToSet(Cams)

\* Lines 163-165: join() of every capture thread, in order; run() goes on
\* when the last of them has ended.
RunJoinThreads ==
  /\ rpc = "join"
  /\ \A c \in JoinedCameras : acquisition_threads[c] = "dead"
  /\ rpc' = "stop_daqs"
  /\ UNCHANGED <<config, tile_index, cam_index, chunk_count_px,
                 acquisition_threads, new_image, daq, hw>>
  /\ UNCHANGED <<stopvars, engvars, bufvars>>
  /\ UNCHANGED xfervars
  /\ UNCHANGED offered
  /\ UNCHANGED drainvars
  /\ UNCHANGED stopobs

\* Lines 168-170: daq.stop() for every trigger device.
RunStopDaqs ==
  /\ rpc = "stop_daqs"
  /\ rpc' = "transfers"
  /\ daq' = [d \in DaqIds |-> IF d \in DaqSet THEN StopDaq(daq[d]) ELSE daq[d]]
  /\ UNCHANGED <<config, tile_index, cam_index, chunk_count_px,
                 acquisition_threads, new_image, hw>>
  /\ UNCHANGED <<stopvars, engvars, bufvars>>
  /\ UNCHANGED xfervars
  /\ UNCHANGED offered
  /\ UNCHANGED drainvars
  /\ UNCHANGED stopobs

\* Line 173: the transfers the wait of lines 173-177 goes through, those of
\* self.transfer_threads.  (LeftoverNone: the variant that waits on none.)
LeftoverNone == {}
LeftoverTransfers == transfer_threads

\* Line 192: the transfers the wait after the tile loop goes through, those
\* of self.transfers.  (FinalNone: the variant that waits on none.)
FinalNone == {}
FinalTransfers == SeqToSet(config.transfers)

\* Lines 173-178: wait_until_finished() on every registered transfer that
\* is alive, then the registry is cleared.
RunWaitTransfers ==
  /\ rpc = "transfers"
  /\ \A t \in LeftoverTransfers : ~transfer[t].alive
  /\ rpc' = "start_transfers"
  /\ transfer_threads' = {}
  /\ UNCHANGED <<config, tile_index, cam_index, chunk_count_px,
                 acquisition_threads, new_image, daq, hw, transfer>>
  /\ UNCHANGED <<stopvars, engvars, bufvars>>
  /\ UNCHANGED offered
  /\ UNCHANGED drainvars
  /\ UNCHANGED stopobs

\* Lines 181-187: every transfer of self.transfers is registered, given the
\* tile's filename and started; then the next tile of the loop of line 55, or
\* the wait after the loop.
RunStartTransfers ==
  /\ rpc = "start_transfers"
  /\ transfer_threads' = SeqToSet(config.transfers)
  /\ transfer' = [t \in TransferIds |->
                    IF t \in SeqToSet(config.transfers)
                      THEN [alive |-> TRUE, filename |-> tile_index]
                      ELSE transfer[t]]
  /\ IF tile_index < Len(config.tiles)
       THEN /\ tile_index' = tile_index + 1
            /\ rpc' = "tile_check"
       ELSE /\ rpc' = "final_wait"
            /\ UNCHANGED tile_index
  /\ UNCHANGED <<config, cam_index, chunk_count_px, acquisition_threads,
                 new_image, daq, hw>>
  /\ UNCHANGED <<stopvars, engvars, bufvars>>
  /\ UNCHANGED offered
  /\ UNCHANGED drainvars
  /\ UNCHANGED stopobs

\* Lines 192-196: wait_until_finished() on every transfer still alive, then
\* run() returns.
RunFinalWait ==
  /\ rpc = "final_wait"
  /\ \A t \in FinalTransfers : ~transfer[t].alive
  /\ rpc' = "done"
  /\ UNCHANGED <<config, tile_index, cam_index, chunk_count_px,
                 acquisition_threads, new_image, daq, hw>>
  /\ UNCHANGED <<stopvars, engvars, bufvars, xfervars>>
  /\ UNCHANGED offered
  /\ UNCHANGED drainvars
  /\ UNCHANGED stopobs

\* --------------------------------------------------------------- engine()
\* Lines 249-251.
ChunkCount(steps, ccp) ==
  IF steps % ccp = 0 THEN steps \div ccp ELSE (steps \div ccp) + 1
LastChunkSize(steps, ccp) == IF steps % ccp = 0 THEN ccp ELSE steps % ccp

\* Lines 260-262: the pulse count of the chunk that starts at frame si.
NumPulses(si, steps, ccp) ==
  LET chunks_filled == si \div ccp
      remaining_chunks == ChunkCount(steps, ccp) - chunks_filled
  IN IF remaining_chunks = 1 THEN LastChunkSize(steps, ccp) ELSE ccp

\* Line 285: the frame si completes a chunk or is the tile's last frame.
\* (ChunkBoundaryFullOnly: the variant without the last-frame test;
\* ChunkBoundaryLastOnly: the variant without the full-chunk test.)
ChunkBoundaryFullOnly(si, steps, ccp) == (si % ccp) + 1 = ccp
ChunkBoundaryLastOnly(si, steps, ccp) == si = steps - 1
ChunkBoundary(si, steps, ccp) == (si % ccp) + 1 = ccp \/ si = steps - 1

\* Line 288: the writer whose done_reading the drain wait polls.  The name
\* `writer` is the one left bound by the last loop over writers.values()
\* (line 239, then line 290): the last writer of the mapping.
DrainWaitWriter(c) == WritersOf(c)[Len(WritersOf(c))]

\* Lines 286-287: the trigger devices stopped at a chunk boundary.
\* (BoundaryStopLastOnly: the variant with daq.stop() after the loop, which
\* stops the last device only.)
BoundaryStopLastOnly == {Daqs[Len(Daqs)]}
BoundaryStopDaqs == DaqSet

\* Lines 271-273: task.start() for the ao, do and co task of a device, those
\* that exist, in this order.
StartTasks(r, tasks) ==
  [r EXCEPT !.ao = IF "ao" \in tasks THEN TRUE ELSE @,
            !.do = IF "do" \in tasks THEN TRUE ELSE @,
            !.co = IF "co" \in tasks THEN TRUE ELSE @]

\* toggle_buffers(): the halves exchange roles, the write index restarts.
ToggleBuffer(b) ==
  [b EXCEPT !.write = 1 - @, !.fill = 0, !.toggles = @ + 1,
            !.chunks = Append(@, b.fill)]

\* Lines 200-246: writers and processes configured, buffers allocated,
\* camera, writers and processes prepared and started.
EngineSetup(c) ==
  /\ pc[c] = "setup"
  /\ pc' = [pc EXCEPT ![c] = "loop"]
  /\ stack_index' = [stack_index EXCEPT ![c] = 0]
  /\ buf' = [w \in WriterIds |->
               IF w \in SeqToSet(WritersOf(c)) THEN NewBuffer ELSE buf[w]]
  /\ handed' = [w \in WriterIds |->
                  IF w \in SeqToSet(WritersOf(c)) THEN {} ELSE handed[w]]
  /\ offered' = [p \in ProcessIds |->
                   IF p \in SeqToSet(ProcsOf(c)) THEN <<>> ELSE offered[p]]
  /\ camera_on' = [camera_on EXCEPT ![c] = TRUE]
  /\ finished' = finished \ RegionsOf(c)
  /\ released' = [x \in WriterIds \cup ProcessIds |->
                    IF x \in RegionsOf(c) THEN 0 ELSE released[x]]
  /\ UNCHANGED <<config, acquisition_threads, new_image, daq, hw, loop_o,
                 loop_i, widx, pidx, trig_stopped, cycle_cfg, stuck_polls, done_reading,
                 shm_name>>
  /\ UNCHANGED <<runvars, stopvars>>
  /\ UNCHANGED xfervars
  /\ chunk_lock' = [w \in WriterIds |->
                      IF w \in SeqToSet(WritersOf(c)) THEN "free" ELSE chunk_lock[w]]
  /\ UNCHANGED stopobs

\* Line 255: self.stop_engine.is_set() at the loop head.  (StopNeverSeen: the
\* variant in which the loop head does not read the flag.)
StopNeverSeen == FALSE
StopSeen == stop_engine

\* Lines 254-259: the loop head.  The range is exhausted, or the stop flag is
\* set (break), or the frame starts a chunk (the triggers are armed), or not.
EngineLoop(c) ==
  /\ pc[c] = "loop"
  /\ IF stack_index[c] >= Steps \/ StopSeen
       THEN /\ pc' = [pc EXCEPT ![c] = "finish_writers"]
            /\ post_stop' = [post_stop EXCEPT ![c] = NoneSinceStop]
            /\ UNCHANGED loop_o
       ELSE IF stack_index[c] % chunk_count_px = 0
              THEN /\ pc' = [pc EXCEPT ![c] = "cfg"]
                   /\ loop_o' = [loop_o EXCEPT ![c] = 1]
                   /\ UNCHANGED post_stop
              ELSE /\ pc' = [pc EXCEPT ![c] = "grab"]
                   /\ UNCHANGED <<loop_o, post_stop>>
  /\ cycle_cfg' = [cycle_cfg EXCEPT ![c] = {}]
  /\ UNCHANGED <<config, acquisition_threads, new_image, daq, hw, stack_index,
                 loop_i, widx, pidx, trig_stopped, stuck_polls>>
  /\ UNCHANGED <<runvars, stopvars, bufvars>>
  /\ UNCHANGED xfervars
  /\ UNCHANGED offered
  /\ UNCHANGED drainvars
  /\ UNCHANGED late

\* Lines 263-266: cfg_implicit_timing of the outer loop's device.
EngineCfg(c) ==
  /\ pc[c] = "cfg"
  /\ LET d == Daqs[loop_o[c]]
     IN /\ daq' = [daq EXCEPT ![d].pulses =
                                 NumPulses(stack_index[c], Steps, chunk_count_px)]
        /\ cycle_cfg' = [cycle_cfg EXCEPT ![c] = @ \cup {d}]
  /\ pc' = [pc EXCEPT ![c] = "start"]
  /\ loop_i' = [loop_i EXCEPT ![c] = 1]
  /\ UNCHANGED <<config, acquisition_threads, new_image, hw, stack_index,
                 loop_o, widx, pidx, trig_stopped, stuck_polls>>
  /\ UNCHANGED <<runvars, stopvars, bufvars>>
  /\ UNCHANGED xfervars
  /\ UNCHANGED offered
  /\ UNCHANGED drainvars
  /\ UNCHANGED stopobs

\* Lines 269-273: the inner loop, nested in the outer one, starts the tasks of
\* one device per step; after its last device the outer loop goes on.
EngineStart(c) ==
  /\ pc[c] = "start"
  /\ LET e == Daqs[loop_i[c]]
     IN daq' = [daq EXCEPT ![e] = StartTasks(@, config.tasks[e])]
  /\ trig_stopped' = [trig_stopped EXCEPT ![c] = {}]
  /\ post_stop' = IF stop_engine
                    THEN [post_stop EXCEPT ![c].arm = @ \cup {stack_index[c]}]
                    ELSE post_stop
  /\ UNCHANGED late
  /\ IF loop_i[c] < Len(Daqs)
       THEN /\ loop_i' = [loop_i EXCEPT ![c] = @ + 1]
            /\ UNCHANGED <<pc, loop_o>>
       ELSE /\ loop_i' = [loop_i EXCEPT ![c] = 1]
            /\ IF loop_o[c] < Len(Daqs)
                 THEN /\ loop_o' = [loop_o EXCEPT ![c] = @ + 1]
                      /\ pc' = [pc EXCEPT ![c] = "cfg"]
                 ELSE /\ loop_o' = [loop_o EXCEPT ![c] = 1]
                      /\ pc' = [pc EXCEPT ![c] = "grab"]
  /\ UNCHANGED <<config, acquisition_threads, new_image, hw, stack_index,
                 widx, pidx, cycle_cfg, stuck_polls>>
  /\ UNCHANGED <<runvars, stopvars, bufvars>>
  /\ UNCHANGED xfervars
  /\ UNCHANGED offered
  /\ UNCHANGED drainvars

\* Where the iteration goes after the frame is in the buffers (and the chunk
\* dispatched): to the processes (line 306) or to the next frame (line 312).
ToProcesses(c) ==
  IF ProcsOf(c) = <<>>
    THEN /\ pc' = [pc EXCEPT ![c] = "loop"]
         /\ stack_index' = [stack_index EXCEPT ![c] = @ + 1]
         /\ UNCHANGED pidx
    ELSE /\ pc' = [pc EXCEPT ![c] = "procs"]
         /\ pidx' = [pidx EXCEPT ![c] = 1]
         /\ UNCHANGED stack_index

\* Lines 276-285: the frame is grabbed and added to every buffer of the camera.
EngineGrab(c) ==
  /\ pc[c] = "grab"
  /\ buf' = [w \in WriterIds |->
               IF w \in SeqToSet(WritersOf(c))
                 THEN [buf[w] EXCEPT !.fill = @ + 1] ELSE buf[w]]
  /\ post_stop' = IF stop_engine
                    THEN [post_stop EXCEPT ![c].grab = @ \cup {stack_index[c]}]
                    ELSE post_stop
  /\ UNCHANGED late
  /\ IF ChunkBoundary(stack_index[c], Steps, chunk_count_px)
       THEN /\ pc' = [pc EXCEPT ![c] = "stop_daq"]
            /\ UNCHANGED <<stack_index, pidx>>
       ELSE ToProcesses(c)
  /\ UNCHANGED <<config, acquisition_threads, new_image, daq, hw, loop_o,
                 loop_i, widx, trig_stopped, cycle_cfg, stuck_polls, done_reading,
                 shm_name, handed>>
  /\ UNCHANGED <<runvars, stopvars>>
  /\ UNCHANGED xfervars
  /\ UNCHANGED offered
  /\ UNCHANGED drainvars
  /\ UNCHANGED chunk_lock

\* Lines 265 and 276: cfg_implicit_timing() or grab_frame() raises.  Nothing
\* in engine() catches it: the exception leaves the thread's target, the
\* thread ends, and nothing after the failing line is executed.  The locals
\* of engine() (loop positions, img_buffers) go with the thread's frame.
EngineHardwareFail(c) ==
  /\ pc[c] \in {"cfg", "grab"}
  /\ pc' = [pc EXCEPT ![c] = "failed"]
  /\ acquisition_threads' = [acquisition_threads EXCEPT ![c] = "dead"]
  /\ stack_index' = [stack_index EXCEPT ![c] = 0]
  /\ loop_o' = [loop_o EXCEPT ![c] = 1]
  /\ loop_i' = [loop_i EXCEPT ![c] = 1]
  /\ trig_stopped' = [trig_stopped EXCEPT ![c] = {}]
  /\ cycle_cfg' = [cycle_cfg EXCEPT ![c] = {}]
  /\ buf' = [w \in WriterIds |->
               IF w \in SeqToSet(WritersOf(c)) THEN NewBuffer ELSE buf[w]]
  /\ offered' = [p \in ProcessIds |->
                   IF p \in SeqToSet(ProcsOf(c)) THEN <<>> ELSE offered[p]]
  /\ UNCHANGED <<config, new_image, daq, hw, widx, pidx, stuck_polls,
                 done_reading, shm_name, handed>>
  /\ UNCHANGED <<runvars, stopvars, xfervars>>
  /\ UNCHANGED drainvars
  /\ UNCHANGED chunk_lock
  /\ post_stop' = [post_stop EXCEPT ![c] = NoneSinceStop]
  /\ UNCHANGED late

\* Lines 286-287: daq.stop() for the trigger devices.
EngineStopDaq(c) ==
  /\ pc[c] = "stop_daq"
  /\ daq' = [d \in DaqIds |->
               IF d \in BoundaryStopDaqs THEN StopDaq(daq[d]) ELSE daq[d]]
  /\ trig_stopped' = [trig_stopped EXCEPT ![c] = BoundaryStopDaqs]
  /\ pc' = [pc EXCEPT ![c] = "drain_wait"]
  /\ UNCHANGED <<config, acquisition_threads, new_image, hw, stack_index,
                 loop_o, loop_i, widx, pidx, cycle_cfg, stuck_polls>>
  /\ UNCHANGED <<runvars, stopvars, bufvars>>
  /\ UNCHANGED xfervars
  /\ UNCHANGED offered
  /\ UNCHANGED drainvars
  /\ UNCHANGED stopobs

\* Lines 288-289: the spin leaves when the polled writer's done_reading is
\* set or the stop flag is set.
EngineDrainWait(c) ==
  /\ pc[c] = "drain_wait"
  /\ done_reading[DrainWaitWriter(c)] \/ stop_engine
  /\ pc' = [pc EXCEPT ![c] = "toggle"]
  /\ widx' = [widx EXCEPT ![c] = 1]
  /\ UNCHANGED <<config, acquisition_threads, new_image, daq, hw, stack_index,
                 loop_o, loop_i, pidx, trig_stopped, cycle_cfg,
                 stuck_polls>>
  /\ UNCHANGED <<runvars, stopvars, bufvars>>
  /\ UNCHANGED xfervars
  /\ UNCHANGED offered
  /\ UNCHANGED drainvars
  /\ UNCHANGED stopobs

\* Line 300: the writer persists data.  (HasPathAlways: the variant without
\* the test of writer.path.)
HasPathAlways(w) == TRUE
HasPath(w) == config.path[w]

\* The toggle loop goes on to the next writer, or after the last one to the
\* processes.
NextWriter(c) ==
  IF widx[c] < Len(WritersOf(c))
    THEN /\ widx' = [widx EXCEPT ![c] = @ + 1]
         /\ pc' = [pc EXCEPT ![c] = "toggle"]
         /\ UNCHANGED <<stack_index, pidx>>
    ELSE /\ widx' = [widx EXCEPT ![c] = 1]
         /\ ToProcesses(c)

\* Lines 298-300: the writer's lock is taken and its buffer toggled; for a
\* writer without a path the lock is left again at once.
EngineToggle(c) ==
  /\ pc[c] = "toggle"
  /\ LET w == WritersOf(c)[widx[c]]
     IN /\ buf' = [buf EXCEPT ![w] = ToggleBuffer(@)]
        /\ IF HasPath(w)
             THEN /\ chunk_lock' = [chunk_lock EXCEPT ![w] = "toggled"]
                  /\ pc' = [pc EXCEPT ![c] = "shm_name"]
                  /\ UNCHANGED <<widx, stack_index, pidx>>
             ELSE /\ UNCHANGED chunk_lock
                  /\ NextWriter(c)
  /\ UNCHANGED <<config, acquisition_threads, new_image, daq, hw, loop_o,
                 loop_i, trig_stopped, cycle_cfg, stuck_polls, done_reading,
                 shm_name, handed, offered>>
  /\ UNCHANGED <<runvars, stopvars, xfervars, drainvars>>
  /\ UNCHANGED stopobs

\* Lines 301-302: writer.shm_name = img_buffers[writer_name].read_buf_mem_name,
\* the half the toggle has just made the read side.
EngineShmName(c) ==
  /\ pc[c] = "shm_name"
  /\ LET w == WritersOf(c)[widx[c]]
     IN /\ shm_name' = [shm_name EXCEPT ![w] = 1 - buf[w].write]
        /\ chunk_lock' = [chunk_lock EXCEPT ![w] = "named"]
  /\ pc' = [pc EXCEPT ![c] = "clear_done"]
  /\ UNCHANGED <<config, acquisition_threads, new_image, daq, hw, stack_index,
                 loop_o, loop_i, widx, pidx, trig_stopped, cycle_cfg,
                 stuck_polls, buf, done_reading, handed, offered>>
  /\ UNCHANGED <<runvars, stopvars, xfervars, drainvars>>
  /\ UNCHANGED stopobs

\* Line 303: writer.done_reading.clear(), the trigger for the writer consumer
\* to read the half named; the lock is left.
EngineClearDone(c) ==
  /\ pc[c] = "clear_done"
  /\ LET w == WritersOf(c)[widx[c]]
     IN /\ done_reading' = [done_reading EXCEPT ![w] = FALSE]
        /\ handed' = [handed EXCEPT ![w] = @ \cup {1 - buf[w].write}]
        /\ chunk_lock' = [chunk_lock EXCEPT ![w] = "free"]
  /\ NextWriter(c)
  /\ UNCHANGED <<config, acquisition_threads, new_image, daq, hw, loop_o,
                 loop_i, trig_stopped, cycle_cfg, stuck_polls, buf, shm_name,
                 offered>>
  /\ UNCHANGED <<runvars, stopvars, xfervars, drainvars>>
  /\ UNCHANGED stopobs

\* Lines 307-308: the spin before the slot is written leaves when the
\* process's new_image is clear.  (SlotFreeAlways: the variant without the
\* spin; SlotFreeInverted: the variant with the test of the spin inverted.)
SlotFreeAlways(p) == TRUE
SlotFreeInverted(p) == new_image[p]
SlotFree(p) == ~new_image[p]

\* Lines 306-312: the frame is written into the process's slot once
\* new_image is clear, and new_image is set; after the last process the
\* frame is done.
EngineProcess(c) ==
  /\ pc[c] = "procs"
  /\ LET p == ProcsOf(c)[pidx[c]]
     IN /\ SlotFree(p)
        /\ offered' = [offered EXCEPT ![p] = Append(@, stack_index[c])]
        /\ new_image' = [new_image EXCEPT ![p] = TRUE]
  /\ IF pidx[c] < Len(ProcsOf(c))
       THEN /\ pidx' = [pidx EXCEPT ![c] = @ + 1]
            /\ UNCHANGED <<pc, stack_index>>
       ELSE /\ pidx' = [pidx EXCEPT ![c] = 1]
            /\ pc' = [pc EXCEPT ![c] = "loop"]
            /\ stack_index' = [stack_index EXCEPT ![c] = @ + 1]
  /\ UNCHANGED <<config, acquisition_threads, daq, hw, loop_o, loop_i, widx,
                 trig_stopped, cycle_cfg,
                 stuck_polls>>
  /\ UNCHANGED <<runvars, stopvars, bufvars>>
  /\ UNCHANGED xfervars
  /\ UNCHANGED drainvars
  /\ UNCHANGED stopobs

\* Lines 307-308: a poll that finds new_image still set sleeps and polls
\* again; the stop flag is not read here.  Polls made with the stop flag set
\* are counted (to PollBound + 1).
EngineProcessPoll(c) ==
  /\ pc[c] = "procs"
  /\ new_image[ProcsOf(c)[pidx[c]]]
  /\ stop_engine
  /\ stuck_polls[c] <= PollBound
  /\ stuck_polls' = [stuck_polls EXCEPT ![c] = @ + 1]
  /\ UNCHANGED <<config, acquisition_threads, new_image, daq, hw, pc,
                 stack_index, loop_o, loop_i, widx, pidx, trig_stopped,
                 cycle_cfg>>
  /\ UNCHANGED <<runvars, stopvars, bufvars>>
  /\ UNCHANGED xfervars
  /\ UNCHANGED offered
  /\ UNCHANGED drainvars
  /\ UNCHANGED stopobs

\* Lines 314-315: writer.wait_to_finish() for every writer: blocks until the
\* writer consumer has nothing outstanding.
EngineFinishWriters(c) ==
  /\ pc[c] = "finish_writers"
  /\ \A w \in SeqToSet(WritersOf(c)) : done_reading[w]
  /\ finished' = finished \cup SeqToSet(WritersOf(c))
  /\ pc' = [pc EXCEPT ![c] = "finish_procs"]
  /\ UNCHANGED <<config, acquisition_threads, new_image, daq, hw, stack_index,
                 loop_o, loop_i, widx, pidx, trig_stopped, cycle_cfg,
                 stuck_polls, camera_on, released, offered>>
  /\ UNCHANGED <<runvars, stopvars, bufvars, xfervars>>
  /\ UNCHANGED stopobs

\* Line 317: the processes wait_to_finish() is called on, those of the
\* camera.  (ProcessesNotAwaited: the variant that waits on none.)
ProcessesNotAwaited(c) == {}
ProcessesAwaited(c) == SeqToSet(ProcsOf(c))

\* Lines 317-318: process.wait_to_finish() for every process: blocks until
\* the process consumer has nothing outstanding.
EngineFinishProcesses(c) ==
  /\ pc[c] = "finish_procs"
  /\ \A p \in ProcessesAwaited(c) : ~new_image[p]
  /\ finished' = finished \cup ProcessesAwaited(c)
  /\ pc' = [pc EXCEPT ![c] = "camera_stop"]
  /\ UNCHANGED <<config, acquisition_threads, new_image, daq, hw, stack_index,
                 loop_o, loop_i, widx, pidx, trig_stopped, cycle_cfg,
                 stuck_polls, camera_on, released, offered>>
  /\ UNCHANGED <<runvars, stopvars, bufvars, xfervars>>
  /\ UNCHANGED stopobs

\* Line 321: camera.stop().
EngineCameraStop(c) ==
  /\ pc[c] = "camera_stop"
  /\ camera_on' = [camera_on EXCEPT ![c] = FALSE]
  /\ pc' = [pc EXCEPT ![c] = "release"]
  /\ UNCHANGED <<config, acquisition_threads, new_image, daq, hw, stack_index,
                 loop_o, loop_i, widx, pidx, trig_stopped, cycle_cfg,
                 stuck_polls, finished, released, offered>>
  /\ UNCHANGED <<runvars, stopvars, bufvars, xfervars>>
  /\ UNCHANGED stopobs

\* Lines 323-331: close_and_unlink() of every double buffer, close() and
\* unlink() of every process buffer; engine() returns and the thread ends.
EngineRelease(c) ==
  /\ pc[c] = "release"
  /\ released' = [x \in WriterIds \cup ProcessIds |->
                    IF x \in RegionsOf(c) THEN released[x] + 1 ELSE released[x]]
  /\ pc' = [pc EXCEPT ![c] = "stopped"]
  /\ acquisition_threads' = [acquisition_threads EXCEPT ![c] = "dead"]
  /\ UNCHANGED <<config, new_image, daq, hw, stack_index, loop_o, loop_i,
                 widx, pidx, trig_stopped, cycle_cfg,
                 stuck_polls, camera_on, finished, offered>>
  /\ UNCHANGED <<runvars, stopvars, bufvars, xfervars>>
  /\ UNCHANGED stopobs

\* ------------------------------------------------------------- consumers
\* The writer consumer finishes copying what it was handed and sets
\* done_reading.
WriterDrain(w) ==
  /\ ~done_reading[w]
  /\ done_reading' = [done_reading EXCEPT ![w] = TRUE]
  /\ handed' = [handed EXCEPT ![w] = {}]
  /\ UNCHANGED <<config, acquisition_threads, new_image, daq, hw, buf, shm_name>>
  /\ UNCHANGED <<runvars, stopvars, engvars>>
  /\ UNCHANGED xfervars
  /\ UNCHANGED offered
  /\ UNCHANGED drainvars
  /\ UNCHANGED chunk_lock
  /\ UNCHANGED stopobs

\* The process consumer takes the frame of its slot and clears new_image.
ProcessConsume(p) ==
  /\ new_image[p]
  /\ new_image' = [new_image EXCEPT ![p] = FALSE]
  /\ UNCHANGED <<config, acquisition_threads, daq, hw>>
  /\ UNCHANGED <<runvars, stopvars, engvars, bufvars>>
  /\ UNCHANGED xfervars
  /\ UNCHANGED offered
  /\ UNCHANGED drainvars
  /\ UNCHANGED stopobs

\* The transfer handle's thread ends: the copy is finished.
TransferFinish(t) ==
  /\ transfer[t].alive
  /\ transfer' = [transfer EXCEPT ![t].alive = FALSE]
  /\ UNCHANGED <<config, acquisition_threads, new_image, daq, hw,
                 transfer_threads>>
  /\ UNCHANGED <<runvars, stopvars, engvars, bufvars>>
  /\ UNCHANGED offered
  /\ UNCHANGED drainvars
  /\ UNCHANGED stopobs

\* ------------------------------------------------------ stop_acquisition()
\* Line 336: the stop flag is set (from another thread, at any time after
\* construction).
StopAcquisition ==
  /\ spc = "idle"
  /\ rpc \notin {"init", "config_error"}
  /\ stop_engine' = TRUE
  /\ spc' = "joining"
  /\ UNCHANGED <<config, acquisition_threads, new_image, daq, hw>>
  /\ UNCHANGED <<runvars, engvars, bufvars>>
  /\ UNCHANGED xfervars
  /\ UNCHANGED offered
  /\ UNCHANGED drainvars
  /\ UNCHANGED stopobs

\* Line 342: how stop_acquisition() ends once the join loop is through.
\* (StopOutcomeReturn: the variant that returns to the caller.)
StopOutcomeReturn == "returned"
StopOutcome == "raised"

\* Lines 337-342: every thread of acquisition_threads is joined (a thread
\* that has ended is joined at once; no entry: nothing to join), then
\* RuntimeError is raised.
StopJoin ==
  /\ spc = "joining"
  /\ \A c \in CameraIds : acquisition_threads[c] \in {"none", "dead"}
  /\ spc' = StopOutcome
  /\ UNCHANGED <<config, acquisition_threads, new_image, daq, hw, stop_engine>>
  /\ UNCHANGED <<runvars, engvars, bufvars>>
  /\ UNCHANGED xfervars
  /\ UNCHANGED offered
  /\ UNCHANGED drainvars
  /\ UNCHANGED stopobs

\* Line 338: join() of a Thread that run() has created (line 155) and not
\* yet started (line 160) raises RuntimeError; the threads before it in the
\* mapping have been joined.
StopJoinError ==
  /\ spc = "joining"
  /\ \E i \in 1..Len(Cams) :
       /\ acquisition_threads[Cams[i]] = "created"
       /\ \A j \in 1..(i - 1) : acquisition_threads[Cams[j]] = "dead"
  /\ spc' = "join_raised"
  /\ UNCHANGED <<config, acquisition_threads, new_image, daq, hw, stop_engine>>
  /\ UNCHANGED <<runvars, engvars, bufvars>>
  /\ UNCHANGED xfervars
  /\ UNCHANGED offered
  /\ UNCHANGED drainvars
  /\ UNCHANGED stopobs

\* ------------------------------------------------------------------- spec
Next ==
  \/ Construct
  \/ RunBegin
  \/ RunCheckTile
  \/ RunPosition
  \/ RunDaqSetup
  \/ RunCreateThreads
  \/ RunStartThread
  \/ RunJoinThreads
  \/ RunStopDaqs
  \/ RunWaitTransfers
  \/ RunStartTransfers
  \/ RunFinalWait
  \/ \E c \in CameraIds :
       \/ EngineSetup(c)
       \/ EngineLoop(c)
       \/ EngineCfg(c)
       \/ EngineStart(c)
       \/ EngineGrab(c)
       \/ EngineHardwareFail(c)
       \/ EngineStopDaq(c)
       \/ EngineDrainWait(c)
       \/ EngineToggle(c)
       \/ EngineShmName(c)
       \/ EngineClearDone(c)
       \/ EngineProcess(c)
       \/ EngineProcessPoll(c)
       \/ EngineFinishWriters(c)
       \/ EngineFinishProcesses(c)
       \/ EngineCameraStop(c)
       \/ EngineRelease(c)
  \/ \E w \in WriterIds : WriterDrain(w)
  \/ \E p \in ProcessIds : ProcessConsume(p)
  \/ \E t \in TransferIds : TransferFinish(t)
  \/ StopAcquisition
  \/ StopJoin
  \/ StopJoinError

Spec == Init /\ [][Next]_vars

\* ---------------------------------------------------- undisturbed sessions
\* The sessions in which nobody calls stop_acquisition() and no hardware call
\* raises: run(), the capture threads and the consumers are the only parties.
LiveNext ==
  \/ Construct
  \/ RunBegin
  \/ RunCheckTile
  \/ RunPosition
  \/ RunDaqSetup
  \/ RunCreateThreads
  \/ RunStartThread
  \/ RunJoinThreads
  \/ RunStopDaqs
  \/ RunWaitTransfers
  \/ RunStartTransfers
  \/ RunFinalWait
  \/ \E c \in CameraIds :
       \/ EngineSetup(c)
       \/ EngineLoop(c)
       \/ EngineCfg(c)
       \/ EngineStart(c)
       \/ EngineGrab(c)
       \/ EngineStopDaq(c)
       \/ EngineDrainWait(c)
       \/ EngineToggle(c)
       \/ EngineShmName(c)
       \/ EngineClearDone(c)
       \/ EngineProcess(c)
       \/ EngineFinishWriters(c)
       \/ EngineFinishProcesses(c)
       \/ EngineCameraStop(c)
       \/ EngineRelease(c)
  \/ \E w \in WriterIds : WriterDrain(w)
  \/ \E p \in ProcessIds : ProcessConsume(p)
  \/ \E t \in TransferIds : TransferFinish(t)

\* The steps of run() (the caller's thread) and of engine() (one Thread per
\* camera, line 158).
RunStep ==
  \/ Construct
  \/ RunBegin
  \/ RunCheckTile
  \/ RunPosition
  \/ RunDaqSetup
  \/ RunCreateThreads
  \/ RunStartThread
  \/ RunJoinThreads
  \/ RunStopDaqs
  \/ RunWaitTransfers
  \/ RunStartTransfers
  \/ RunFinalWait
EngineStep(c) ==
  \/ EngineSetup(c)
  \/ EngineLoop(c)
  \/ EngineCfg(c)
  \/ EngineStart(c)
  \/ EngineGrab(c)
  \/ EngineStopDaq(c)
  \/ EngineDrainWait(c)
  \/ EngineToggle(c)
  \/ EngineShmName(c)
  \/ EngineClearDone(c)
  \/ EngineProcess(c)
  \/ EngineFinishWriters(c)
  \/ EngineFinishProcesses(c)
  \/ EngineCameraStop(c)
  \/ EngineRelease(c)

\* Every thread that can take a step is scheduled in the end (run()'s thread
\* and the capture threads are operating-system threads; the waits of lines
\* 85, 288 and 307 sleep between polls), the camera delivers the frame
\* grab_frame() waits for, the stage settles, every writer and process
\* consumer answers a hand-off and every transfer ends.
Fairness ==
  /\ WF_vars(RunStep)
  /\ \A c \in CameraIds : WF_vars(EngineStep(c))
  /\ \A w \in WriterIds : WF_vars(WriterDrain(w))
  /\ \A p \in ProcessIds : WF_vars(ProcessConsume(p))
  /\ \A t \in TransferIds : WF_vars(TransferFinish(t))

LiveSpec == Init /\ [][LiveNext]_vars /\ Fairness

\* ================================================================ claims
CamSet == SeqToSet(Cams)
AfterLoop == {"finish_writers", "finish_procs", "camera_stop", "release", "stopped"}
\* run() is between starting the threads of a tile and taking the next tile
TileInProgress ==
  rpc \in {"start_threads", "join", "stop_daqs", "transfers", "start_transfers"}
CeilDiv(a, b) == (a + b - 1) \div b
RECURSIVE SumSeq(_)
SumSeq(q) == IF q = <<>> THEN 0 ELSE Head(q) + SumSeq(Tail(q))
\* the step of camera c is one pass of the inner loop of lines 269-273
IsStartStep(c) == pc[c] = "start" /\ (pc'[c] # "start" \/ loop_i'[c] # loop_i[c])

\* C1: a tile captured without a stop request is dispatched in exactly
\* ceil(steps / chunk_count_px) toggles of every writer's double buffer, and
\* the frames added between consecutive toggles sum to steps.
C1_ChunksDispatched ==
  \A c \in CamSet :
    (TileInProgress /\ pc[c] \in AfterLoop /\ ~stop_engine) =>
      \A w \in SeqToSet(WritersOf(c)) :
        /\ buf[w].toggles = CeilDiv(Steps, chunk_count_px)
        /\ Len(buf[w].chunks) = CeilDiv(Steps, chunk_count_px)
        /\ SumSeq(buf[w].chunks) = Steps
        /\ buf[w].fill = 0

\* C1 witness: chunk_count_px = 2 and steps = 5 ended in chunks [2, 2, 1].
C1_Witness ==
  /\ TileInProgress /\ pc["cam0"] = "stopped" /\ ~stop_engine
  /\ chunk_count_px = 2 /\ Steps = 5
  /\ buf["w0"].chunks = <<2, 2, 1>> /\ buf["w1"].chunks = <<2, 2, 1>>

\* The pulse count the claim C2 names for the chunk camera c is arming.
ExpectedPulses(c) ==
  IF stack_index[c] + chunk_count_px >= Steps
    THEN (IF Steps % chunk_count_px # 0 THEN Steps % chunk_count_px
                                         ELSE chunk_count_px)
    ELSE chunk_count_px

\* C2: whenever engine() starts a device's counter task for a chunk, the pulse
\* count programmed on that counter task is chunk_count_px, or for the tile's
\* last chunk steps mod chunk_count_px when non-zero; for any number of
\* trigger devices.
C2_PulseCountAtStart ==
  [][\A c \in CameraIds :
       IsStartStep(c) =>
         LET e == Daqs[loop_i[c]]
         IN "co" \in config.tasks[e] => daq'[e].pulses = ExpectedPulses(c)]_vars

\* C3: a writer's double buffer is toggled only while that writer's
\* done_reading is set, for every writer of the camera.  Toggles made after a
\* stop request (the drain wait of line 288 gives up on it) are set aside
\* here, so that a violation is one of a session nobody stopped.
C3_ToggleOnlyWhenDrained ==
  [][\A w \in WriterIds :
       (buf'[w].toggles = buf[w].toggles + 1 /\ ~stop_engine)
         => done_reading[w]]_vars

\* C4: no frame is added into a half that was handed to the writer consumer
\* and that the consumer has not yet signalled as drained.
C4_NoFillOfHandedHalf ==
  [][\A w \in WriterIds :
       buf'[w].fill = buf[w].fill + 1 => buf[w].write \notin handed[w]]_vars

\* C5: while a capture thread toggles the buffers of a chunk boundary, it has
\* called stop() on every trigger device and has started none since.
C5_StopBeforeToggle ==
  \A c \in CamSet :
    pc[c] \in {"toggle", "shm_name", "clear_done"} => trig_stopped[c] = DaqSet

\* C5 witness: the boundary of a tile's last, partial chunk, one writer
\* toggled and the next about to be.
C5_Witness ==
  /\ pc["cam0"] = "toggle" /\ widx["cam0"] = 2
  /\ stack_index["cam0"] = Steps - 1 /\ Steps % chunk_count_px # 0
  /\ buf["w0"].toggles = CeilDiv(Steps, chunk_count_px)
  /\ buf["w1"].toggles = CeilDiv(Steps, chunk_count_px) - 1
  /\ Len(Daqs) = 2

\* C6: with two or more cameras, the pulse train is never running (started
\* and not stopped) while a camera thread is toggling a double buffer.
C6_NoPulsesDuringToggle ==
  Len(Cams) >= 2 =>
    ~(\E c \in CamSet, d \in DaqSet : pc[c] = "toggle" /\ daq[d].co)

\* C7: a counter task is started only after the ao and do tasks of all
\* trigger devices have been written and started and after its own pulse
\* count for the chunk has been configured; for any number of devices.
C7_MasterStartsLast ==
  [][\A c \in CameraIds :
       IsStartStep(c) =>
         LET e == Daqs[loop_i[c]]
         IN "co" \in config.tasks[e] =>
              /\ e \in cycle_cfg[c]
              /\ \A x \in DaqSet :
                   /\ "ao" \in config.tasks[x] =>
                        (daq'[x].ao /\ "ao" \in daq[x].written)
                   /\ "do" \in config.tasks[x] =>
                        (daq'[x].do /\ "do" \in daq[x].written)]_vars

\* two writers of the session are configured with different chunk sizes
ChunkSizesDiffer ==
  \E i, j \in 1..Len(AllWriters) :
    config.chunk[AllWriters[i]] # config.chunk[AllWriters[j]]

\* C8: with two writers of different chunk_count_px construction fails before
\* any stage motion, trigger programming or capture thread; with one shared
\* value validation succeeds and that value is the session's chunk_count_px.
C8_ChunkSizeValidation ==
  /\ ChunkSizesDiffer =>
       /\ rpc \in {"init", "config_error"}
       /\ ~hw.stage /\ ~hw.trigger /\ ~hw.thread
       /\ \A c \in CameraIds : acquisition_threads[c] = "none"
  /\ (~ChunkSizesDiffer /\ rpc # "init") =>
       /\ rpc # "config_error"
       /\ \A i \in 1..Len(AllWriters) :
            chunk_count_px = config.chunk[AllWriters[i]]

\* C8 witness: writers of two different devices differ, construction failed.
C8_Witness ==
  /\ rpc = "config_error"
  /\ Len(Cams) = 2
  /\ config.chunk["w0"] # config.chunk["w1"]

\* C9: when run() rejects a tile shorter than chunk_count_px, no capture
\* thread was spawned and no stage or trigger hardware armed in the session,
\* wherever the tile sits in the scan plan (stated of the sessions nobody
\* stopped and in which the tile before was captured without a failure).
C9_ShortTileBeforeHardware ==
  (rpc = "tile_error" /\ ~stop_engine /\ \A c \in CamSet : pc[c] # "failed") =>
    (~hw.thread /\ ~hw.stage /\ ~hw.trigger)

\* positions of engine() inside an iteration of the capture loop
MidIteration ==
  {"cfg", "start", "grab", "stop_daq", "drain_wait", "toggle", "shm_name",
   "clear_done", "procs"}

\* C10: the stop flag set while several camera threads are capturing (each is
\* inside an iteration, past the flag check of line 255): no capture thread
\* polls a wait point more than PollBound times without leaving it.
C10_StopLeavesWaits ==
  (Len(Cams) >= 2 /\ \A x \in CamSet : pc[x] \in MidIteration) =>
    \A c \in CamSet : stuck_polls[c] <= PollBound

\* run() is at the step of lines 181-187 and takes it
IsStartTransfersStep == rpc = "start_transfers" /\ rpc' # "start_transfers"

\* C11: no transfer is given a new filename or started while its previous
\* run is still alive: when run() reaches lines 181-187 it has blocked on
\* every transfer of the previous tile that was alive (lines 173-177).
C11_TransferWaitedBeforeReuse ==
  [][/\ IsStartTransfersStep =>
          \A t \in SeqToSet(config.transfers) : ~transfer[t].alive
     /\ \A t \in TransferIds :
          (transfer'[t].filename # transfer[t].filename
             \/ (transfer'[t].alive /\ ~transfer[t].alive))
            => (IsStartTransfersStep /\ ~transfer[t].alive)]_vars

\* C11 witness: tile 2's capture is complete, the transfer t0 started after
\* tile 1 is still alive (t1 has finished), and run() is at the wait of lines
\* 173-177.
C11_Witness ==
  /\ rpc = "transfers" /\ tile_index = 2
  /\ transfer_threads = {"t0", "t1"}
  /\ transfer["t0"].alive /\ transfer["t0"].filename = 1
  /\ ~transfer["t1"].alive /\ transfer["t1"].filename = 1

\* stop_acquisition() hands control back to its caller in this step
IsStopExit == spc = "joining" /\ spc' # "joining"

\* C12: whenever stop_acquisition() hands control back to its caller, every
\* capture thread run() has put into acquisition_threads has terminated.
C12_StopJoinsAllThreads ==
  [][IsStopExit =>
       \A c \in CamSet : acquisition_threads[c] \in {"none", "dead"}]_vars

\* C20: stop_acquisition() never returns normally: it ends by raising, with
\* the stop flag set; the RuntimeError of line 342 is raised once every thread
\* of acquisition_threads is joined, whatever state the capture threads ended
\* in, and the only other way out is the RuntimeError of join() itself.
C20_StopAlwaysRaises ==
  [][spc' # spc =>
       \/ spc = "idle" /\ spc' = "joining" /\ stop_engine'
       \/ /\ spc = "joining" /\ spc' = "raised" /\ stop_engine
          /\ \A c \in CamSet : acquisition_threads[c] \in {"none", "dead"}
       \/ spc = "joining" /\ spc' = "join_raised" /\ stop_engine]_vars

\* C20 witness: two capture threads stopped mid-tile have drained and ended,
\* and stop_acquisition() has raised.
C20_Witness ==
  /\ spc = "raised" /\ stop_engine /\ Len(Cams) = 2
  /\ pc["cam0"] = "stopped" /\ pc["cam1"] = "stopped"
  /\ stack_index["cam0"] < Steps

\* C13: while a capture thread of the tile has ended by a failed frame
\* retrieval or trigger programming, run() has not gone past the transfer
\* handling of the tile: it has not started the tile's transfers and gone on
\* to the next tile or to the end of the scan (stated of the sessions nobody
\* stopped).
C13_FailedThreadSurfaced ==
  \A c \in CamSet :
    (pc[c] = "failed" /\ ~stop_engine) =>
      rpc \in {"start_threads", "join", "stop_daqs", "transfers",
               "start_transfers"}

\* the frames 0 .. n-1 in capture order
FrameRange(n) == [i \in 1..n |-> i - 1]
\* positions of engine() from the loop head on, the failed end set aside
InOrAfterLoop == MidIteration \cup AfterLoop \cup {"loop"}

\* C14: a frame is written into a process's slot only while new_image is
\* clear, and new_image is set by the write; the frames offered to a process
\* are the grabbed frames, each once, in capture order: after k complete
\* iterations frames 0..k-1, and within an iteration the frame at hand for the
\* processes already served.
C14_ProcessSlotProtocol ==
  [][/\ \A p \in ProcessIds :
          offered'[p] # offered[p] /\ offered'[p] # <<>>
            => (~new_image[p] /\ new_image'[p])
     /\ \A c \in CamSet :
          pc'[c] \in InOrAfterLoop =>
            \A k \in 1..Len(ProcsOf(c)) :
              offered'[ProcsOf(c)[k]] =
                FrameRange(IF pc'[c] = "procs" /\ pidx'[c] > k
                             THEN stack_index'[c] + 1
                             ELSE stack_index'[c])]_vars

\* C14 witness: frame 2 is grabbed and the capture loop waits at the slot
\* that still holds the unconsumed frame 1.
C14_Witness ==
  /\ pc["cam0"] = "procs" /\ stack_index["cam0"] = 2
  /\ new_image["p0"] /\ offered["p0"] = <<0, 1>>
  /\ ~stop_engine

\* C15: when run() has returned normally, no transfer is alive: the wait of
\* lines 192-196 has blocked on every transfer started after the final tile
\* (and lines 173-177 on those of the tiles before).
C15_ReturnAfterTransfers ==
  rpc = "done" => \A t \in TransferIds : ~transfer[t].alive

\* C15 witness: run() has returned after a scan of two tiles whose final
\* transfers, of two devices, were started and have ended.
C15_Witness ==
  /\ rpc = "done" /\ tile_index = Len(config.tiles) /\ tile_index >= 2
  /\ transfer_threads = {"t0", "t1"}
  /\ \A t \in transfer_threads :
       transfer[t].filename = tile_index /\ ~transfer[t].alive

\* C16: for each tile all capture threads are started before any is joined;
\* all of them have ended when run() stops the trigger devices and handles
\* the transfers; and none is alive while run() prepares the next tile and
\* creates its threads.
C16_TilesSequential ==
  /\ rpc = "join" =>
       \A c \in CamSet : acquisition_threads[c] \in {"alive", "dead"}
  /\ rpc \in {"stop_daqs", "transfers", "start_transfers"} =>
       \A c \in CamSet : acquisition_threads[c] = "dead"
  /\ rpc \in {"tile_check", "position", "daq_setup", "create_threads"} =>
       \A c \in CamSet : acquisition_threads[c] # "alive"

\* C16 witness: run() is at the join and the threads of two cameras are both
\* inside the capture loop.
C16_Witness ==
  /\ rpc = "join" /\ Len(Cams) = 2
  /\ acquisition_threads["cam0"] = "alive" /\ acquisition_threads["cam1"] = "alive"
  /\ pc["cam0"] = "grab" /\ pc["cam1"] = "grab"

\* C17: a capture thread that left the loop waits for every writer, then for
\* every process, then stops the camera, then releases the regions: a process
\* is finished only after every writer, the camera is stopped only after
\* every writer and process, and a region is released only with the camera
\* stopped and with its consumers finished and holding nothing of it.
C17_DrainingOrder ==
  \A c \in CamSet :
    pc[c] \in AfterLoop =>
      LET ws == SeqToSet(WritersOf(c))
          ps == SeqToSet(ProcsOf(c))
      IN /\ (ps \cap finished # {}) => ws \subseteq finished
         /\ ~camera_on[c] => (ws \cup ps) \subseteq finished
         /\ \A x \in RegionsOf(c) :
              released[x] > 0 =>
                /\ ~camera_on[c]
                /\ (ws \cup ps) \subseteq finished
                /\ \A w \in ws : done_reading[w]
                /\ \A p \in ps : ~new_image[p]

\* C17 witness: a thread stopped by request in the middle of a tile has
\* finished two writers and a process, stopped the camera and released.
C17_Witness ==
  /\ pc["cam0"] = "stopped" /\ stop_engine /\ stack_index["cam0"] < Steps
  /\ stack_index["cam0"] > 0
  /\ finished = {"w0", "w1", "p0"} /\ ~camera_on["cam0"]
  /\ released["w0"] = 1 /\ released["w1"] = 1 /\ released["p0"] = 1

\* C18: when a capture thread has ended, every region it allocated has been
\* released exactly once, and no region is ever released twice.
C18_ReleasedExactlyOnce ==
  /\ \A x \in WriterIds \cup ProcessIds : released[x] <= 1
  /\ \A c \in CamSet :
       (acquisition_threads[c] = "dead" /\ ~stop_engine) =>
         \A x \in RegionsOf(c) : released[x] = 1

\* C19: for a writer with a path the buffer is toggled as the lock is taken,
\* then the writer's shm_name is set to the new read side, then done_reading
\* is cleared as the lock is left, the name still being that of the read
\* side; the shm_name and done_reading of a writer without a path are never
\* changed.
C19_HandOffOrder ==
  [][\A w \in WriterIds :
       /\ (config.path[w] /\ buf'[w].toggles = buf[w].toggles + 1) =>
            (chunk_lock[w] = "free" /\ chunk_lock'[w] = "toggled")
       /\ shm_name'[w] # shm_name[w] =>
            /\ chunk_lock[w] = "toggled" /\ chunk_lock'[w] = "named"
            /\ shm_name'[w] = 1 - buf[w].write
       /\ (done_reading[w] /\ ~done_reading'[w]) =>
            /\ chunk_lock[w] = "named" /\ chunk_lock'[w] = "free"
            /\ shm_name[w] = 1 - buf[w].write
       /\ chunk_lock'[w] # chunk_lock[w] =>
            <<chunk_lock[w], chunk_lock'[w]>> \in
              {<<"free", "toggled">>, <<"toggled", "named">>, <<"named", "free">>}
       /\ ~config.path[w] =>
            (shm_name'[w] = shm_name[w] /\ done_reading'[w] = done_reading[w]
               /\ chunk_lock'[w] = "free")]_vars

\* C19 witness: at the second hand-off of writer w0 the buffer is toggled
\* and the read side named, done_reading is not yet cleared and the lock is
\* held; the session also has a writer without a path, toggled and untouched.
C19_Witness ==
  /\ pc["cam0"] = "clear_done" /\ chunk_lock["w0"] = "named"
  /\ buf["w0"].toggles = 2 /\ shm_name["w0"] = 1 - buf["w0"].write
  /\ done_reading["w0"]
  /\ ~config.path["w1"] /\ buf["w1"].toggles >= 1 /\ shm_name["w1"] = -1

\* C21: the stop flag once set stays set; with the flag set a capture thread
\* arms the triggers and grabs a frame in at most one iteration, the one that
\* had passed the flag check of line 255; a thread started with the flag
\* already set arms nothing and grabs nothing.
C21_StopFlagSticky ==
  [][/\ stop_engine => stop_engine'
     /\ \A c \in CamSet :
          /\ Cardinality(post_stop'[c].arm \cup post_stop'[c].grab) <= 1
          /\ c \in late' => post_stop'[c] = NoneSinceStop]_vars

\* C21 witness: the flag was set while the thread was past the check of
\* its third frame; the thread has armed the triggers for that frame and
\* grabbed it, and takes no further frame of the tile.
C21_Witness ==
  /\ stop_engine /\ pc["cam0"] = "procs"
  /\ post_stop["cam0"] = [arm |-> {2}, grab |-> {2}]
  /\ stack_index["cam0"] = 2 /\ Steps > 3

\* C22: the frames added to the write region of a double buffer since its
\* last toggle never exceed chunk_count_px, the capacity the region is
\* allocated with (lines 218-220), and add_image (line 282) is never called
\* on a region holding chunk_count_px frames: the toggle of line 298 comes
\* after the chunk_count_px-th frame, whether or not steps is a multiple of
\* chunk_count_px.
C22_WriteRegionNeverOverfull ==
  [][\A w \in WriterIds :
       /\ buf[w].fill <= chunk_count_px
       /\ buf'[w].fill <= chunk_count_px
       /\ buf'[w].fill = buf[w].fill + 1 => buf[w].fill < chunk_count_px]_vars

\* C22 witness: steps is no multiple of chunk_count_px; the write region of
\* the second chunk holds chunk_count_px frames and the thread stands before
\* the toggle that empties it.
C22_Witness ==
  /\ chunk_count_px = 2 /\ Steps = 5 /\ Len(Cams) = 1
  /\ pc["cam0"] = "toggle" /\ widx["cam0"] = 1
  /\ stack_index["cam0"] = 3
  /\ buf["w0"].fill = 2 /\ buf["w0"].toggles = 1
  /\ buf["w1"].fill = 2

\* every tile of the scan plan has at least chunk_count_px frames, and the
\* writers agree on the chunk size: run() raises on no tile
PlanAccepted ==
  /\ VerifyChunkSize(AllWriters, config.chunk) # -1
  /\ \A i \in 1..Len(config.tiles) :
       ~TileTooShort(config.tiles[i], AllWriters, config.chunk)

\* the capture threads of the tile at hand have taken every frame of it,
\* drained and returned
TileCaptured ==
  \A c \in CamSet :
    /\ pc[c] = "stopped" /\ stack_index[c] = Steps
    /\ \A w \in SeqToSet(WritersOf(c)) :
         buf[w].toggles = CeilDiv(Steps, chunk_count_px)

\* C23: in a session nobody stops, with the camera delivering, the consumers
\* answering, the stage settling and the transfers ending, run() called on an
\* accepted scan plan returns: it has gone through the tiles in scan-plan
\* order, one at a time, each left only after all its capture threads took
\* every frame of it and reached the end of engine(), and no thread, consumer
\* or transfer is left waiting.
C23_RunTerminates ==
  /\ (rpc = "ready" /\ PlanAccepted) ~>
       (/\ rpc = "done" /\ tile_index = Len(config.tiles)
        /\ TileCaptured
        /\ \A c \in CamSet : acquisition_threads[c] = "dead"
        /\ \A t \in TransferIds : ~transfer[t].alive)
  /\ [][tile_index' # tile_index =>
          /\ tile_index' = tile_index + 1
          /\ TileCaptured]_vars

\* C23 witness: a scan of two tiles of five frames, chunks of two, has
\* returned.
C23_Witness ==
  /\ rpc = "done" /\ tile_index = 2 /\ Len(Cams) = 1
  /\ chunk_count_px = 2 /\ config.tiles = <<5, 5>>
  /\ TileCaptured
  /\ Len(offered["p0"]) = 5
  /\ \A t \in {"t0", "t1"} : transfer[t] = [alive |-> FALSE, filename |-> 2]

====
